---- MODULE Spec2Model ----
(***************************************************************************)
(* Voting contract (src/src/contract.rs): instantiate, execute_create_poll,*)
(* execute_vote and the four queries, over the three storage namespaces    *)
(* CONFIG, POLLS and BALLOTS.  Every entry point is one atomic action: the *)
(* host runs calls one at a time, to completion.  Storage writes take      *)
(* effect when the code performs them (deps.storage is written in place),  *)
(* so a write made before a later Err return stays in the store.           *)
(***************************************************************************)
EXTENDS Integers, Sequences, FiniteSets, TLC

VARIABLES config, polls, ballots, overflow_checks, last, before, vote_failed, calls

vars == <<config, polls, ballots, overflow_checks, last, before, vote_failed, calls>>

----------------------------------------------------------------------------
(* Bounds of the model and the inputs drawn by the actions *)

\* number of execute and query calls explored after instantiate
MaxCalls == 5

\* width of a tally in the model; the code's u64 is scaled down to this width
\* (TLC integers are 32 bit), wrapping exactly as the u64 does
CountBits == 4

CountMod == 2 ^ CountBits

\* contract.rs:68, the largest accepted number of options
MaxOptions == 10

Addrs == {"addr1", "addr2"}

PollIds == {"p1", "p2"}

\* labels a Vote may name; "T" is in no option list
Labels == {"A", "B", "T"}

Questions == {"Q1", "Q2"}

\* n options, the first two "A" and "B", the third a second "A"
LongOptions(n) ==
    [i \in 1..n |-> IF i = 1 THEN "A" ELSE IF i = 2 THEN "B"
                    ELSE IF i = 3 THEN "A" ELSE ToString(i)]

OptionLists == {<<"A", "B">>, LongOptions(MaxOptions), LongOptions(MaxOptions + 1)}

----------------------------------------------------------------------------
(* Option<T> and the storage maps *)

None == <<>>

Some(x) == <<x>>

EmptyMap == [k \in {} |-> k]

\* Map::may_load / Item::may_load
may_load(map, key) == IF key \in DOMAIN map THEN Some(map[key]) ELSE None

\* the value written under every key of the namespace
save_clobbering(map, key, value) == [k \in (DOMAIN map) \cup {key} |-> value]

\* Map::save
save(map, key, value) ==
    [k \in (DOMAIN map) \cup {key} |-> IF k = key THEN value ELSE map[k]]

----------------------------------------------------------------------------
(* Tallies: u64 arithmetic.  With overflow checks compiled in, an overflowing *)
(* `-= 1` or `+= 1` panics; without them it wraps.  The build decides which. *)

sub_overflows(count) == count = 0

add_overflows(count) == count = CountMod - 1

wrapping_sub(count) == (count + CountMod - 1) % CountMod

wrapping_add(count) == (count + 1) % CountMod

\* the subtraction skipped
decrement_skipped(options, pos) == options

\* poll.options[position_of_old_vote].1 -= 1
decrement(options, pos) ==
    [options EXCEPT ![pos] = <<@[1], wrapping_sub(@[2])>>]

\* the addition applied twice
increment_twice(options, pos) ==
    [options EXCEPT ![pos] = <<@[1], wrapping_add(wrapping_add(@[2]))>>]

\* poll.options[position].1 += 1
increment(options, pos) ==
    [options EXCEPT ![pos] = <<@[1], wrapping_add(@[2])>>]

\* the last entry carrying the label instead of the first
rposition(options, label) ==
    LET hits == {i \in 1..Len(options) : options[i][1] = label}
    IN  IF hits = {} THEN None
        ELSE Some(CHOOSE i \in hits : \A j \in hits : j <= i)

\* poll.options.iter().position(|option| option.0 == label): the first entry
\* carrying the label (indices from 1 here, from 0 in the code)
position(options, label) ==
    LET hits == {i \in 1..Len(options) : options[i][1] = label}
    IN  IF hits = {} THEN None
        ELSE Some(CHOOSE i \in hits : \A j \in hits : i <= j)

----------------------------------------------------------------------------
(* execute_create_poll *)

\* the limit off by one
too_many_options_strict(options) == Len(options) >= MaxOptions

\* one option too many let through
too_many_options_lax(options) == Len(options) > MaxOptions + 1

\* options.len() > 10
too_many_options(options) == Len(options) > MaxOptions

\* for option in options { opts.push((option, 0)) }
opts(options) == [i \in 1..Len(options) |-> <<options[i], 0>>]

\* the caller's question dropped and the stored one kept on re-creation
new_poll_keeping_question(stored, sender, question, options) ==
    [creator |-> sender,
     question |-> IF stored = None THEN question ELSE stored[1].question,
     options |-> opts(options)]

\* Poll { creator: info.sender, question, options: opts }
new_poll(stored, sender, question, options) ==
    [creator |-> sender, question |-> question, options |-> opts(options)]

execute_create_poll(polls_, sender, poll_id, question, options) ==
    IF too_many_options(options)
    THEN [result |-> "TooManyOptions", polls |-> polls_, attributes |-> <<>>]
    ELSE [result |-> "Ok",
          polls |-> save(polls_, poll_id,
                         new_poll(may_load(polls_, poll_id), sender, question, options)),
          attributes |-> <<"execute_create_poll", poll_id, question>>]

----------------------------------------------------------------------------
(* execute_vote *)

\* The closure given to BALLOTS.update, and the save that follows it.  The
\* closure panics before anything is saved when the old ballot's label is in
\* no entry (unwrap of None) or when the checked subtraction overflows.
ballots_update(poll, ballots_, checks, sender, poll_id, vote) ==
    LET ballot == may_load(ballots_, <<sender, poll_id>>)
        saved  == save(ballots_, <<sender, poll_id>>, [option |-> vote])
    IN  IF ballot = None
        THEN [panic |-> "", poll |-> poll, ballots |-> saved]
        ELSE LET position_of_old_vote == position(poll.options, ballot[1].option)
             IN  IF position_of_old_vote = None
                 THEN [panic |-> "PanicUnwrapNone", poll |-> poll, ballots |-> ballots_]
                 ELSE IF checks /\ sub_overflows(poll.options[position_of_old_vote[1]][2])
                 THEN [panic |-> "PanicOverflow", poll |-> poll, ballots |-> ballots_]
                 ELSE [panic |-> "",
                       poll |-> [poll EXCEPT !.options =
                                    decrement(@, position_of_old_vote[1])],
                       ballots |-> saved]

\* the ballot written for a poll that does not exist
vote_on_missing_poll_writes(polls_, ballots_, sender, poll_id, vote) ==
    [result |-> "PollNotFound", polls |-> polls_,
     ballots |-> save(ballots_, <<sender, poll_id>>, [option |-> vote]),
     attributes |-> <<>>]

\* None => Err(ContractError::PollNotFound {})
vote_on_missing_poll(polls_, ballots_, sender, poll_id, vote) ==
    [result |-> "PollNotFound", polls |-> polls_, ballots |-> ballots_,
     attributes |-> <<>>]

\* the ballot write undone when the option is not found
option_not_found_rolled_back(polls_, ballots_, updated) ==
    [result |-> "OptionNotFound", polls |-> polls_, ballots |-> ballots_,
     attributes |-> <<>>]

\* return Err(ContractError::OptionNotFound {}): the poll is not saved, the
\* ballot already is
option_not_found(polls_, ballots_, updated) ==
    [result |-> "OptionNotFound", polls |-> polls_, ballots |-> updated,
     attributes |-> <<>>]

\* the poll id and the vote reported in each other's place
vote_response_swapped(poll_id, vote) == <<"execute_vote", vote, poll_id>>

\* the values of the attributes "action", "poll_id" and "vote" of the Response
vote_response(poll_id, vote) == <<"execute_vote", poll_id, vote>>

execute_vote(polls_, ballots_, checks, sender, poll_id, vote) ==
    LET loaded == may_load(polls_, poll_id)
    IN  IF loaded = None
        THEN vote_on_missing_poll(polls_, ballots_, sender, poll_id, vote)
        ELSE
        LET upd == ballots_update(loaded[1], ballots_, checks, sender, poll_id, vote)
            pos == position(upd.poll.options, vote)
        IN  IF upd.panic # ""
            THEN [result |-> upd.panic, polls |-> polls_, ballots |-> upd.ballots,
                  attributes |-> <<>>]
            ELSE IF pos = None
            THEN option_not_found(polls_, ballots_, upd.ballots)
            ELSE IF checks /\ add_overflows(upd.poll.options[pos[1]][2])
            THEN [result |-> "PanicOverflow", polls |-> polls_,
                  ballots |-> upd.ballots, attributes |-> <<>>]
            ELSE [result |-> "Ok",
                  polls |-> save(polls_, poll_id,
                                 [upd.poll EXCEPT !.options = increment(@, pos[1])]),
                  ballots |-> upd.ballots,
                  attributes |-> vote_response(poll_id, vote)]

----------------------------------------------------------------------------
(* queries *)

\* the poll ids in the store's key order (ascending bytes)
KeyOrder == <<"p1", "p2">>

\* the range taken in descending key order
query_all_polls_descending(polls_) ==
    LET keys == SelectSeq(KeyOrder, LAMBDA k : k \in DOMAIN polls_)
    IN  [i \in 1..Len(keys) |-> polls_[keys[Len(keys) + 1 - i]]]

\* POLLS.range(deps.storage, None, None, Order::Ascending), the values kept
query_all_polls(polls_) ==
    LET keys == SelectSeq(KeyOrder, LAMBDA k : k \in DOMAIN polls_)
    IN  [i \in 1..Len(keys) |-> polls_[keys[i]]]

\* POLLS.load in place of may_load: a missing poll answered with an error
query_poll_load(polls_, poll_id) ==
    IF poll_id \in DOMAIN polls_ THEN Some(polls_[poll_id]) ELSE Some("NotFound")

\* PollResponse { poll: POLLS.may_load(deps.storage, &poll_id)? }
query_poll(polls_, poll_id) == may_load(polls_, poll_id)

query_vote(ballots_, address, poll_id) == may_load(ballots_, <<address, poll_id>>)

query_config(config_) == config_

----------------------------------------------------------------------------
(* The state machine *)

\* The record of the last call: what was called, with what, and its outcome.
\* prev_vote is history: the label of the call before it when that call was
\* a successful Vote by the same sender on the same poll, and "" otherwise.
Call(op, sender, poll_id, question, options, vote, result, attributes, data, prev_vote) ==
    [op |-> op, sender |-> sender, poll_id |-> poll_id, question |-> question,
     options |-> options, vote |-> vote, result |-> result,
     attributes |-> attributes, data |-> data, prev_vote |-> prev_vote]

\* The store is empty until instantiate runs.  overflow_checks is the build
\* profile, fixed for the life of the contract.  before is the poll map as
\* it was when the last call started; vote_failed says whether any Vote so
\* far has not returned Ok; calls counts the execute and query calls.
Init ==
    /\ config = None
    /\ polls = EmptyMap
    /\ ballots = EmptyMap
    /\ overflow_checks \in BOOLEAN
    /\ last = Call("", "", "", "", <<>>, "", "", <<>>, <<>>, "")
    /\ before = EmptyMap
    /\ vote_failed = FALSE
    /\ calls = 0

\* the supplied admin ignored
admin_ignored(sender, admin) == sender

\* msg.admin.unwrap_or(info.sender.to_string())
admin_or_sender(sender, admin) == IF admin = None THEN sender ELSE admin[1]

\* instantiate: the admin, or else the sender, saved as the Config
Instantiate(sender, admin) ==
    /\ config = None
    /\ LET validated_admin == admin_or_sender(sender, admin)
       IN  /\ config' = Some([admin |-> validated_admin])
           /\ last' = Call("Instantiate", sender, "", "", <<>>, "", "Ok",
                           <<"instantiate", validated_admin>>, admin, "")
    /\ before' = polls
    /\ UNCHANGED <<polls, ballots, overflow_checks, vote_failed, calls>>

\* the host runs execute and query only on an instantiated contract
Ready == config # None /\ calls < MaxCalls

CreatePoll(sender, poll_id, question, options) ==
    /\ Ready
    /\ LET out == execute_create_poll(polls, sender, poll_id, question, options)
       IN  /\ polls' = out.polls
           /\ last' = Call("CreatePoll", sender, poll_id, question, options, "",
                           out.result, out.attributes, <<>>, "")
    /\ before' = polls
    /\ calls' = calls + 1
    /\ UNCHANGED <<config, ballots, overflow_checks, vote_failed>>

Vote(sender, poll_id, vote) ==
    /\ Ready
    /\ LET out == execute_vote(polls, ballots, overflow_checks, sender, poll_id, vote)
           prev_vote == IF /\ last.op = "Vote"
                           /\ last.result = "Ok"
                           /\ last.sender = sender
                           /\ last.poll_id = poll_id
                        THEN last.vote ELSE ""
       IN  /\ polls' = out.polls
           /\ ballots' = out.ballots
           /\ last' = Call("Vote", sender, poll_id, "", <<>>, vote,
                           out.result, out.attributes, <<>>, prev_vote)
           /\ vote_failed' = (vote_failed \/ out.result # "Ok")
    /\ before' = polls
    /\ calls' = calls + 1
    /\ UNCHANGED <<config, overflow_checks>>

\* query: reads the store and answers; nothing is written
Query(op, address, poll_id, data) ==
    /\ Ready
    /\ last' = Call(op, address, poll_id, "", <<>>, "", "Ok", <<>>, data, "")
    /\ before' = polls
    /\ calls' = calls + 1
    /\ UNCHANGED <<config, polls, ballots, overflow_checks, vote_failed>>

QueryAllPolls == Query("QueryAllPolls", "", "", query_all_polls(polls))

QueryPoll(poll_id) == Query("QueryPoll", "", poll_id, query_poll(polls, poll_id))

QueryVote(address, poll_id) ==
    Query("QueryVote", address, poll_id, query_vote(ballots, address, poll_id))

QueryConfig == Query("QueryConfig", "", "", query_config(config))

InstantiateAny ==
    \E sender \in Addrs, admin \in {None} \cup {Some(a) : a \in Addrs} :
        Instantiate(sender, admin)

\* Voting explored in full, over polls with the options "A" and "B".
Next ==
    \/ InstantiateAny
    \/ \E sender \in Addrs, poll_id \in PollIds :
          CreatePoll(sender, poll_id, "Q1", <<"A", "B">>)
    \/ \E sender \in Addrs, poll_id \in PollIds, vote \in Labels :
          Vote(sender, poll_id, vote)

Spec == Init /\ [][Next]_vars

\* Poll creation explored in full, with one voter voting "A".
NextCreate ==
    \/ InstantiateAny
    \/ \E sender \in Addrs, poll_id \in PollIds, question \in Questions,
          options \in OptionLists : CreatePoll(sender, poll_id, question, options)
    \/ \E poll_id \in PollIds : Vote("addr1", poll_id, "A")

SpecCreate == Init /\ [][NextCreate]_vars

\* The queries explored in full, between polls created with the options
\* "A" and "B" or with one option too many, and votes for "A" and for the
\* missing label "T".
NextQuery ==
    \/ InstantiateAny
    \/ \E sender \in Addrs, poll_id \in PollIds,
          options \in {<<"A", "B">>, LongOptions(MaxOptions + 1)} :
          CreatePoll(sender, poll_id, "Q1", options)
    \/ \E sender \in Addrs, poll_id \in PollIds, vote \in {"A", "T"} :
          Vote(sender, poll_id, vote)
    \/ QueryAllPolls
    \/ \E poll_id \in PollIds : QueryPoll(poll_id)
    \/ \E address \in Addrs, poll_id \in PollIds : QueryVote(address, poll_id)
    \/ QueryConfig

SpecQuery == Init /\ [][NextQuery]_vars

\* Voting explored in full, over polls created with the label "A" twice.
NextDup ==
    \/ InstantiateAny
    \/ \E sender \in Addrs, poll_id \in PollIds :
          CreatePoll(sender, poll_id, "Q1", <<"A", "B", "A">>)
    \/ \E sender \in Addrs, poll_id \in PollIds, vote \in Labels :
          Vote(sender, poll_id, vote)

SpecDup == Init /\ [][NextDup]_vars

----------------------------------------------------------------------------
(* Vocabulary of the properties *)

\* the step is an execute call of the named kind (instantiate leaves calls alone)
IsCall(op) == calls' = calls + 1 /\ last'.op = op

LabelsOf(poll) == {poll.options[i][1] : i \in 1..Len(poll.options)}

\* the tally of the entry carrying the label, for a poll whose labels are distinct
TallyOf(poll, label) ==
    LET i == CHOOSE j \in 1..Len(poll.options) : poll.options[j][1] = label
    IN  poll.options[i][2]

RECURSIVE SumTallies(_)
SumTallies(options) ==
    IF options = <<>> THEN 0 ELSE Head(options)[2] + SumTallies(Tail(options))

\* the stored ballots on the poll that select the label
BallotsFor(poll_id, label) ==
    {k \in DOMAIN ballots : k[2] = poll_id /\ ballots[k].option = label}

\* the voters holding a stored ballot on the poll
VotersOn(poll_id) == {k[1] : k \in {b \in DOMAIN ballots : b[2] = poll_id}}

----------------------------------------------------------------------------
(* C1 *)

\* C1: in the state after a successful Vote, every option entry of every
\* stored poll has a count equal to the number of stored ballots on that poll
\* selecting the entry's label.
I1_AfterSuccessfulVote ==
    (last.op = "Vote" /\ last.result = "Ok") =>
        \A p \in DOMAIN polls : \A i \in 1..Len(polls[p].options) :
            polls[p].options[i][2] = Cardinality(BallotsFor(p, polls[p].options[i][1]))

----------------------------------------------------------------------------
(* C2 *)

\* C2: while every Vote so far has succeeded, after a successful Vote the
\* tallies of each stored poll sum to the number of distinct voters holding
\* a ballot on that poll.
P1_TallyConservation ==
    (~vote_failed /\ last.op = "Vote" /\ last.result = "Ok") =>
        \A p \in DOMAIN polls :
            SumTallies(polls[p].options) = Cardinality(VotersOn(p))

----------------------------------------------------------------------------
(* C3 *)

\* the step is a Vote for another label of the poll by the voter whose
\* successful Vote on the same poll was the call before it
IsVoteChange ==
    /\ IsCall("Vote")
    /\ last.op = "Vote"
    /\ last.result = "Ok"
    /\ last'.sender = last.sender
    /\ last'.poll_id = last.poll_id
    /\ last'.vote # last.vote
    /\ last'.vote \in LabelsOf(polls[last.poll_id])

----------------------------------------------------------------------------
(* C4 *)

\* the step repeats the successful Vote that was the call before it
IsRevote ==
    /\ IsCall("Vote")
    /\ last.op = "Vote"
    /\ last.result = "Ok"
    /\ last'.sender = last.sender
    /\ last'.poll_id = last.poll_id
    /\ last'.vote = last.vote

\* C4: casting the same vote twice in a row succeeds the second time and
\* leaves the stored polls and ballots as the first vote left them.
P2_IdempotentRevote ==
    [][IsRevote => (last'.result = "Ok" /\ polls' = polls /\ ballots' = ballots)]_vars

\* a second identical vote has been cast, on a poll another voter voted on too
P2_Witness ==
    /\ last.op = "Vote"
    /\ last.result = "Ok"
    /\ last.prev_vote = last.vote
    /\ Cardinality(VotersOn(last.poll_id)) = 2
    /\ TallyOf(polls[last.poll_id], last.vote) = 2

----------------------------------------------------------------------------
(* C5 *)

\* C5: a Vote naming a poll id with no stored poll fails with PollNotFound
\* and changes neither the polls nor the ballots.
P5_UnknownPoll ==
    [][(IsCall("Vote") /\ last'.poll_id \notin DOMAIN polls) =>
        (last'.result = "PollNotFound" /\ polls' = polls /\ ballots' = ballots)]_vars

\* a Vote on a missing poll has failed while another poll and a ballot exist
P5_Witness ==
    /\ last.op = "Vote"
    /\ last.result = "PollNotFound"
    /\ last.poll_id \notin DOMAIN polls
    /\ DOMAIN polls # {}
    /\ DOMAIN ballots # {}

----------------------------------------------------------------------------
(* C6 *)

\* C6: a Vote on a stored poll for a label that is in none of its entries
\* fails with OptionNotFound, whatever ballot the voter holds.
P6_UnknownOption ==
    [][(/\ IsCall("Vote")
        /\ last'.poll_id \in DOMAIN polls
        /\ last'.vote \notin LabelsOf(polls[last'.poll_id]))
       => last'.result = "OptionNotFound"]_vars

----------------------------------------------------------------------------
(* C7 *)

\* C7: when a Vote fails with OptionNotFound the voter's ballot on the poll
\* is stored with the requested label and the stored polls are unchanged.
PartialFailure ==
    [][(IsCall("Vote") /\ last'.result = "OptionNotFound") =>
        /\ <<last'.sender, last'.poll_id>> \in DOMAIN ballots'
        /\ ballots'[<<last'.sender, last'.poll_id>>] = [option |-> last'.vote]
        /\ polls' = polls]_vars

\* a voter whose vote for A was counted has then voted for a missing label:
\* the ballot names it and A's tally still counts the voter
PartialFailure_Witness ==
    /\ last.op = "Vote"
    /\ last.result = "OptionNotFound"
    /\ last.prev_vote = "A"
    /\ ballots[<<last.sender, last.poll_id>>].option = "T"
    /\ TallyOf(polls[last.poll_id], "A") = 1

----------------------------------------------------------------------------
(* C8 *)

\* C8: whenever a Vote finds a previous ballot of the voter on the poll, the
\* ballot's label is in an entry of the poll's option list.
OldLabelPresent ==
    [][(/\ IsCall("Vote")
        /\ last'.poll_id \in DOMAIN polls
        /\ <<last'.sender, last'.poll_id>> \in DOMAIN ballots)
       => ballots[<<last'.sender, last'.poll_id>>].option
              \in LabelsOf(polls[last'.poll_id])]_vars

----------------------------------------------------------------------------
(* C9 *)

\* C9: CreatePoll with more than MaxOptions options fails with
\* TooManyOptions and changes neither the polls nor the ballots; with
\* MaxOptions or fewer it succeeds.
P4_Bounds ==
    [][IsCall("CreatePoll") =>
        IF Len(last'.options) > MaxOptions
        THEN last'.result = "TooManyOptions" /\ polls' = polls /\ ballots' = ballots
        ELSE last'.result = "Ok"]_vars

\* a poll of exactly MaxOptions options is stored and a CreatePoll with one
\* more option has just been refused
P4_Witness ==
    /\ last.op = "CreatePoll"
    /\ Len(last.options) = MaxOptions + 1
    /\ last.result = "TooManyOptions"
    /\ \E p \in DOMAIN polls : Len(polls[p].options) = MaxOptions

----------------------------------------------------------------------------
(* C10 *)

\* C10: a successful CreatePoll stores at poll_id the caller as creator, the
\* given question and the given labels in order, each with tally 0; it
\* succeeds over an existing poll too, and changes no other poll and no ballot.
CreatePollEffect ==
    [][IsCall("CreatePoll") =>
        LET id == last'.poll_id
        IN  /\ (id \in DOMAIN polls /\ Len(last'.options) <= MaxOptions)
                  => last'.result = "Ok"
            /\ last'.result = "Ok" =>
                  /\ DOMAIN polls' = DOMAIN polls \cup {id}
                  /\ polls'[id].creator = last'.sender
                  /\ polls'[id].question = last'.question
                  /\ Len(polls'[id].options) = Len(last'.options)
                  /\ \A i \in 1..Len(last'.options) :
                         polls'[id].options[i] = <<last'.options[i], 0>>
                  /\ \A o \in DOMAIN polls \ {id} : polls'[o] = polls[o]
                  /\ ballots' = ballots]_vars

\* a poll holding a counted vote has been replaced, by another caller with
\* another question and other options, while a second poll is stored
CreatePollEffect_Witness ==
    /\ last.op = "CreatePoll"
    /\ last.result = "Ok"
    /\ last.poll_id \in DOMAIN before
    /\ before[last.poll_id].creator # last.sender
    /\ before[last.poll_id].question # last.question
    /\ before[last.poll_id].options = <<<<"A", 1>>, <<"B", 0>>>>
    /\ Len(polls[last.poll_id].options) = MaxOptions
    /\ <<"addr1", last.poll_id>> \in DOMAIN ballots
    /\ DOMAIN polls = PollIds

----------------------------------------------------------------------------
(* C11 *)

\* C11: once a poll is stored at a poll id, its creator and question are the
\* same in every later state.
CreatorQuestionImmutable ==
    [][\A p \in DOMAIN polls :
          /\ p \in DOMAIN polls'
          /\ polls'[p].creator = polls[p].creator
          /\ polls'[p].question = polls[p].question]_vars

\* the step is a successful CreatePoll at the poll id
Recreates(p) ==
    IsCall("CreatePoll") /\ last'.result = "Ok" /\ last'.poll_id = p

\* C11 as amended: a stored poll stays stored, and its creator and question
\* change only in a successful CreatePoll at its own poll id, which sets them
\* to that call's sender and question.
CreatorQuestionKeptUnlessRecreated ==
    [][\A p \in DOMAIN polls :
          /\ p \in DOMAIN polls'
          /\ IF Recreates(p)
             THEN /\ polls'[p].creator = last'.sender
                  /\ polls'[p].question = last'.question
             ELSE /\ polls'[p].creator = polls[p].creator
                  /\ polls'[p].question = polls[p].question]_vars

\* a poll created by addr2 with question Q2 has been voted on by addr1 and
\* then the other poll id has been created by addr1 with question Q1
CreatorQuestion_Witness ==
    /\ last.op = "CreatePoll"
    /\ last.result = "Ok"
    /\ last.sender = "addr1"
    /\ last.question = "Q1"
    /\ \E p \in DOMAIN polls \ {last.poll_id} :
          /\ polls[p].creator = "addr2"
          /\ polls[p].question = "Q2"
          /\ <<"addr1", p>> \in DOMAIN ballots
          /\ polls[p].options = <<<<"A", 1>>, <<"B", 0>>>>
          /\ p \in DOMAIN before
          /\ before[p] = polls[p]

----------------------------------------------------------------------------
(* C12 *)

\* C12: every stored poll has at most MaxOptions entries, and the number of
\* entries of a stored poll changes only in a successful CreatePoll at its
\* poll id.
AtMostMaxOptions ==
    [][/\ \A p \in DOMAIN polls' : Len(polls'[p].options) <= MaxOptions
       /\ \A p \in DOMAIN polls :
             (p \in DOMAIN polls' /\ ~Recreates(p))
                => Len(polls'[p].options) = Len(polls[p].options)]_vars

\* a poll of exactly MaxOptions entries has taken a vote and still has them
AtMostMaxOptions_Witness ==
    /\ last.op = "Vote"
    /\ last.result = "Ok"
    /\ Len(polls[last.poll_id].options) = MaxOptions
    /\ polls[last.poll_id].options[1] = <<"A", 1>>
    /\ \E p \in DOMAIN polls : Len(polls[p].options) = 2

----------------------------------------------------------------------------
(* C13 *)

\* C13: a ballot, once stored for a (voter, poll id) pair, stays stored; a
\* ballot is created or changed only by a Vote of that voter on that poll
\* id, the poll being stored, and then records the label voted; the voter's
\* first Vote on a stored poll creates it, and every later Vote that returns
\* (Ok or OptionNotFound) leaves the one ballot of the pair recording its label.
BallotLifecycle ==
    [][/\ DOMAIN ballots \subseteq DOMAIN ballots'
       /\ \A k \in DOMAIN ballots' :
             (k \notin DOMAIN ballots \/ ballots'[k] # ballots[k]) =>
                 /\ IsCall("Vote")
                 /\ last'.sender = k[1]
                 /\ last'.poll_id = k[2]
                 /\ k[2] \in DOMAIN polls
                 /\ ballots'[k] = [option |-> last'.vote]
       /\ (/\ IsCall("Vote")
           /\ last'.poll_id \in DOMAIN polls
           /\ (\/ <<last'.sender, last'.poll_id>> \notin DOMAIN ballots
               \/ last'.result \in {"Ok", "OptionNotFound"}))
          => /\ <<last'.sender, last'.poll_id>> \in DOMAIN ballots'
             /\ ballots'[<<last'.sender, last'.poll_id>>] = [option |-> last'.vote]]_vars

\* a voter has replaced a ballot for A by one for B while the other voter's
\* ballot on the same poll is stored
BallotLifecycle_Witness ==
    /\ last.op = "Vote"
    /\ last.result = "Ok"
    /\ last.prev_vote = "A"
    /\ ballots[<<last.sender, last.poll_id>>] = [option |-> "B"]
    /\ DOMAIN ballots = Addrs \X {last.poll_id}

----------------------------------------------------------------------------
(* C14 *)

\* C14: instantiate stores as admin the admin supplied, or the caller when
\* none is supplied; no later call changes the stored Config; QueryConfig
\* answers with it.
ConfigAdmin ==
    [][/\ (config = None /\ last'.op = "Instantiate") =>
              config' = Some([admin |-> IF last'.data = None THEN last'.sender
                                        ELSE last'.data[1]])
       /\ config # None => config' = config
       /\ IsCall("QueryConfig") =>
              (last'.result = "Ok" /\ last'.data = Some([admin |-> config[1].admin]))]_vars

\* QueryConfig has answered addr2 after a poll was created by addr1 and a
\* vote failed
ConfigAdmin_Witness ==
    /\ last.op = "QueryConfig"
    /\ last.data = Some([admin |-> "addr2"])
    /\ vote_failed
    /\ \E p \in DOMAIN polls : polls[p].creator = "addr1"
    /\ DOMAIN ballots # {}

----------------------------------------------------------------------------
(* C15 *)

\* C15: QueryPoll, QueryAllPolls and QueryVote change nothing stored and do
\* not fail; QueryPoll answers the stored poll or an absent result; QueryVote
\* answers the stored ballot of (address, poll id) or an absent result, also
\* when no poll is stored at the poll id.
QueriesPureAndTotal ==
    [][/\ (IsCall("QueryPoll") \/ IsCall("QueryAllPolls") \/ IsCall("QueryVote")) =>
              /\ last'.result = "Ok"
              /\ config' = config
              /\ polls' = polls
              /\ ballots' = ballots
       /\ IsCall("QueryPoll") =>
              last'.data = IF last'.poll_id \in DOMAIN polls
                           THEN <<polls[last'.poll_id]>> ELSE <<>>
       /\ IsCall("QueryVote") =>
              last'.data = IF <<last'.sender, last'.poll_id>> \in DOMAIN ballots
                           THEN <<ballots[<<last'.sender, last'.poll_id>>]>> ELSE <<>>]_vars

\* QueryPoll has answered absent for a poll id never created while the other
\* poll id holds a poll and a ballot
QueriesPureAndTotal_Witness ==
    /\ last.op = "QueryPoll"
    /\ last.result = "Ok"
    /\ last.data = None
    /\ last.poll_id \notin DOMAIN polls
    /\ DOMAIN polls # {}
    /\ DOMAIN ballots # {}

----------------------------------------------------------------------------
(* C16 *)

\* the place of a poll id in the store's key order
Rank(p) == CHOOSE i \in 1..Len(KeyOrder) : KeyOrder[i] = p

\* C16: the poll ids stored are those successfully created, each once;
\* QueryAllPolls answers with the stored polls, one per poll id, in ascending
\* poll id order, as they are stored; with no poll stored, the empty list.
AllPollsListing ==
    [][/\ DOMAIN polls' =
              DOMAIN polls \cup (IF IsCall("CreatePoll") /\ last'.result = "Ok"
                                 THEN {last'.poll_id} ELSE {})
       /\ IsCall("QueryAllPolls") =>
              /\ Len(last'.data) = Cardinality(DOMAIN polls)
              /\ \E ids \in [1..Len(last'.data) -> DOMAIN polls] :
                    /\ \A i, j \in 1..Len(last'.data) :
                           i < j => Rank(ids[i]) < Rank(ids[j])
                    /\ \A i \in 1..Len(last'.data) : last'.data[i] = polls[ids[i]]]_vars

\* QueryAllPolls has answered with two different polls, the first the one
\* stored at p1, the second holding two votes
AllPollsListing_Witness ==
    /\ last.op = "QueryAllPolls"
    /\ Len(last.data) = 2
    /\ last.data[1] # last.data[2]
    /\ last.data[1] = polls["p1"]
    /\ last.data[2].options = <<<<"A", 2>>, <<"B", 0>>>>

----------------------------------------------------------------------------
(* C17 *)

\* C17: a successful Vote reports the action "execute_vote", the poll id and
\* the label it was called with, and the label reported is the option of the
\* voter's stored ballot on that poll.
VoteReport ==
    (last.op = "Vote" /\ last.result = "Ok") =>
        /\ last.attributes = <<"execute_vote", last.poll_id, last.vote>>
        /\ <<last.sender, last.poll_id>> \in DOMAIN ballots
        /\ ballots[<<last.sender, last.poll_id>>].option = last.attributes[3]

\* addr2 has changed a vote on p2 from B to A and the change is reported
VoteReport_Witness ==
    /\ last.op = "Vote"
    /\ last.result = "Ok"
    /\ last.sender = "addr2"
    /\ last.prev_vote = "B"
    /\ last.attributes = <<"execute_vote", "p2", "A">>
    /\ ballots[<<"addr2", "p2">>].option = "A"

----------------------------------------------------------------------------
(* C18 *)

\* C18: whenever a voter holding a ballot on a stored poll votes on it again,
\* the tally of the entry named by that ballot is at least 1.
DecrementNeverUnderflows ==
    [][(/\ IsCall("Vote")
        /\ last'.poll_id \in DOMAIN polls
        /\ <<last'.sender, last'.poll_id>> \in DOMAIN ballots
        /\ ballots[<<last'.sender, last'.poll_id>>].option
               \in LabelsOf(polls[last'.poll_id]))
       => TallyOf(polls[last'.poll_id],
                  ballots[<<last'.sender, last'.poll_id>>].option) >= 1]_vars

----------------------------------------------------------------------------
(* C19 *)

\* C19: a Vote by voter v on poll id p, whatever its outcome, leaves the
\* Config, every other poll and every other ballot as they were, adds no poll,
\* and keeps the creator, the question and the sequence of labels of p.
VoteFrame ==
    [][IsCall("Vote") =>
        LET v == last'.sender
            p == last'.poll_id
        IN  /\ config' = config
            /\ DOMAIN polls' = DOMAIN polls
            /\ \A o \in DOMAIN polls \ {p} : polls'[o] = polls[o]
            /\ DOMAIN ballots \subseteq DOMAIN ballots'
            /\ DOMAIN ballots' \subseteq DOMAIN ballots \cup {<<v, p>>}
            /\ \A k \in DOMAIN ballots \ {<<v, p>>} : ballots'[k] = ballots[k]
            /\ p \in DOMAIN polls =>
                  /\ polls'[p].creator = polls[p].creator
                  /\ polls'[p].question = polls[p].question
                  /\ Len(polls'[p].options) = Len(polls[p].options)
                  /\ \A i \in 1..Len(polls[p].options) :
                         polls'[p].options[i][1] = polls[p].options[i][1]]_vars

\* addr1 has voted B on one poll while the other poll, created by addr2,
\* holds addr2's vote for A
VoteFrame_Witness ==
    /\ last.op = "Vote"
    /\ last.result = "Ok"
    /\ last.sender = "addr1"
    /\ last.vote = "B"
    /\ \E o \in DOMAIN polls \ {last.poll_id} :
          /\ polls[o].creator = "addr2"
          /\ polls[o].options = <<<<"A", 1>>, <<"B", 0>>>>
          /\ <<"addr2", o>> \in DOMAIN ballots
          /\ ballots[<<"addr2", o>>].option = "A"

----------------------------------------------------------------------------
(* C20 *)

\* the index of the first entry carrying the label
FirstEntry(poll, label) ==
    CHOOSE i \in 1..Len(poll.options) :
        /\ poll.options[i][1] = label
        /\ \A j \in 1..(i - 1) : poll.options[j][1] # label

\* the entry repeats the label of an earlier entry
IsLaterDuplicate(poll, i) == \E j \in 1..(i - 1) : poll.options[j][1] = poll.options[i][1]

\* C20: CreatePoll keeps a repeated label as separate entries; a successful
\* Vote adds one to the first entry carrying its label and takes one from the
\* first entry carrying the label of the voter's previous ballot (u64
\* arithmetic); every later entry repeating a label has tally 0 throughout.
DuplicateLabels ==
    [][/\ (IsCall("CreatePoll") /\ last'.result = "Ok") =>
              /\ Len(polls'[last'.poll_id].options) = Len(last'.options)
              /\ \A i \in 1..Len(last'.options) :
                     polls'[last'.poll_id].options[i][1] = last'.options[i]
       /\ \A p \in DOMAIN polls' : \A i \in 1..Len(polls'[p].options) :
              IsLaterDuplicate(polls'[p], i) => polls'[p].options[i][2] = 0
       /\ (IsCall("Vote") /\ last'.result = "Ok") =>
              LET p == last'.poll_id
                  k == <<last'.sender, p>>
                  new == FirstEntry(polls[p], last'.vote)
                  moved == k \notin DOMAIN ballots \/ ballots[k].option # last'.vote
              IN  /\ polls'[p].options[new][2] =
                         IF moved THEN (polls[p].options[new][2] + 1) % CountMod
                         ELSE polls[p].options[new][2]
                  /\ (k \in DOMAIN ballots /\ moved) =>
                         LET old == FirstEntry(polls[p], ballots[k].option)
                         IN  polls'[p].options[old][2] =
                                 (polls[p].options[old][2] + CountMod - 1) % CountMod]_vars

\* both voters voted the repeated label A and one has moved to B: the first
\* A entry counts the other voter, the second A entry counts nobody
DuplicateLabels_Witness ==
    /\ last.op = "Vote"
    /\ last.result = "Ok"
    /\ last.prev_vote = "A"
    /\ polls[last.poll_id].options = <<<<"A", 1>>, <<"B", 1>>, <<"A", 0>>>>
    /\ before[last.poll_id].options = <<<<"A", 2>>, <<"B", 0>>, <<"A", 0>>>>

----------------------------------------------------------------------------
(* C21 *)

\* two Vote calls run one after the other from the current state: the
\* outcome of each and the store they leave
VotesInOrder(v1, p1, l1, v2, p2, l2) ==
    LET first  == execute_vote(polls, ballots, overflow_checks, v1, p1, l1)
        second == execute_vote(first.polls, first.ballots, overflow_checks, v2, p2, l2)
    IN  [outcome1 |-> <<first.result, first.attributes>>,
         outcome2 |-> <<second.result, second.attributes>>,
         polls |-> second.polls,
         ballots |-> second.ballots]

\* the same two calls run in the opposite order, reported call by call
VotesInReverseOrder(v1, p1, l1, v2, p2, l2) ==
    LET swapped == VotesInOrder(v2, p2, l2, v1, p1, l1)
    IN  [outcome1 |-> swapped.outcome2,
         outcome2 |-> swapped.outcome1,
         polls |-> swapped.polls,
         ballots |-> swapped.ballots]

\* C21: in every state the instantiated contract can be in, two Vote calls by
\* two distinct voters, on any polls and with any labels, give each call the
\* same outcome and leave the same poll map and ballot map in either order.
VotesCommute ==
    config # None =>
        \A v1 \in Addrs, v2 \in Addrs, p1 \in PollIds, p2 \in PollIds,
           l1 \in Labels, l2 \in Labels :
            v1 # v2 => VotesInOrder(v1, p1, l1, v2, p2, l2)
                           = VotesInReverseOrder(v1, p1, l1, v2, p2, l2)

====
